---- MODULE Spec2Model ----
(***************************************************************************)
(* ember-cli-deploy-azure-tables: the revision manifest kept in one Azure  *)
(* table.  Every hook of the plugin (upload, willActivate, activate,       *)
(* fetchRevisions) is a chain of store calls; one action of this module is *)
(* one store call together with the callback that handles its answer.      *)
(* Strings are sequences of one-character strings, so that key derivation  *)
(* (concatenation, substr, includes) is computed as the code computes it.  *)
(***************************************************************************)
EXTENDS Integers, Sequences, FiniteSets, TLC

\* ----------------------------------------------------------------- bounds
\* hook invocations in one behaviour
MaxOps == 3
\* rows the store returns in one page of a query
PageSize == 1

\* the deploy processes that run against the shared table at the same time
Procs == {1, 2}

\* -------------------------------------------------------------- constants
AZURE_MANIFEST_TAG == <<"m">>

AZURE_DISALLOWED_VALUES == {"/", "\\", "#", "?", "\t", "\n", "\r"}

\* length of the revision hash prefix used as revision key
HashPrefixLen == 8

\* the value _current resolves with when there is no pointer row
Null == <<>>
\* commandOptions.revision when --revision was not given
NoRevision == <<>>
\* a field an entity does not have
Absent == "absent"

\* errors
NoError == "none"
StoreError == "StoreError"
EntityAlreadyExists == "EntityAlreadyExists"
DuplicateRevisionError == "Key already in manifest - revision already uploaded or collided."
RevisionNotFoundError == "Revision not in manifest"
ConfigurationError == "Project name contains invalid characters"
MissingAuthError == "Missing connection string or storage account / access key combination."

\* ----------------------------------------------------------------- inputs
RevisionHash == <<"0", "1", "2", "3", "4", "5", "6", "7", "8", "9">>

\* the deploy contexts upload and activate are invoked with: the project
\* name, --revision, the revision hash of the build and the plugin's
\* settings: compressIndex and which of connectionString, storageAccount and
\* storageAccessKey are set.  The pipeline runs configure (lines 70-81) before
\* the hooks, so the project names that reach them have passed _projectName
Contexts ==
  { [project |-> <<"a">>, revision |-> <<"c", "u", "r", "r", "e", "n", "t">>,
     revisionKey |-> RevisionHash, compressIndex |-> FALSE,
     connectionString |-> TRUE, storageAccount |-> FALSE, storageAccessKey |-> FALSE],
    [project |-> <<"a">>, revision |-> <<"b", ":", "0", "1", "2", "3", "4", "5", "6", "7">>,
     revisionKey |-> RevisionHash, compressIndex |-> TRUE,
     connectionString |-> TRUE, storageAccount |-> FALSE, storageAccessKey |-> FALSE],
    [project |-> <<"a", ":", "b">>, revision |-> NoRevision,
     revisionKey |-> RevisionHash, compressIndex |-> FALSE,
     connectionString |-> TRUE, storageAccount |-> FALSE, storageAccessKey |-> FALSE] }

\* willActivate and fetchRevisions read only the project name of the context
ProjectContexts ==
  {CHOOSE context \in Contexts : context.project = project :
     project \in {context.project : context \in Contexts}}

NoContext ==
  [project |-> <<>>, revision |-> NoRevision, revisionKey |-> <<>>,
   compressIndex |-> FALSE,
   connectionString |-> FALSE, storageAccount |-> FALSE, storageAccessKey |-> FALSE]

\* ------------------------------------------------------------- key codec
Min(a, b) == IF a < b THEN a ELSE b

\* String.prototype.substr(0, n)
Substr0(s, n) == SubSeq(s, 1, Min(n, Len(s)))

\* String.prototype.includes for a single character
Includes(name, v) == \E i \in 1..Len(name) : name[i] = v

ContainedChars(name) == {v \in AZURE_DISALLOWED_VALUES : Includes(name, v)}

\* _createClient throws without a connection string or an account and key
CreateClientThrows(context) ==
  ~context.connectionString
    /\ ~(context.storageAccount /\ context.storageAccessKey)

\* _projectName throws when the name has a disallowed character
ProjectNameThrows(context) == ContainedChars(context.project) # {}

_projectName(context) == context.project

RevisionKeyOf(context) ==
  IF context.revision # NoRevision
    THEN context.revision
    ELSE Substr0(context.revisionKey, HashPrefixLen)

_key(context) == _projectName(context) \o <<":">> \o RevisionKeyOf(context)

_currentKey(context) ==
  _projectName(context) \o <<":", "c", "u", "r", "r", "e", "n", "t">>

\* ------------------------------------------------------------ the payload
\* contents of dist/index.html of the n-th invocation
IndexHtml(n) == <<"h", ToString(n)>>

\* zlib.gzipSync
GzipSync(contents) == <<"g", "z">> \o contents

EntityString(v) == [type |-> "String", value |-> v]
EntityBinary(v) == [type |-> "Binary", value |-> v]

\* -------------------------------------------------------------- the store
\* rows: the entities of the table in arrival order
\* tableExists: createTableIfNotExists has succeeded once
\* clock: the store's write time
\* ops: the hook invocation each deploy process is running
\* started: hook invocations so far
VARIABLES rows, tableExists, clock, ops, started

vars == <<rows, tableExists, clock, ops, started>>

HasRow(rs, rowKey) == \E i \in 1..Len(rs) : rs[i].RowKey = rowKey

RowIndex(rs, rowKey) == CHOOSE i \in 1..Len(rs) : rs[i].RowKey = rowKey

Matches(row, query) ==
  /\ row.PartitionKey = query.partitionKey
  /\ IF query.op = "eq" THEN row.RowKey = query.rowKey ELSE row.RowKey # query.rowKey

\* the first n rows after position i that match, with the position reached
RECURSIVE Scan(_, _, _, _, _)
Scan(rs, query, i, n, acc) ==
  IF i > Len(rs) \/ n = 0
    THEN [entries |-> acc, pos |-> i - 1]
    ELSE IF Matches(rs[i], query)
      THEN Scan(rs, query, i + 1, n - 1, Append(acc, rs[i]))
      ELSE Scan(rs, query, i + 1, n, acc)

\* queryEntities: one page; continuationToken 0 is null
QueryEntities(rs, query, continuationToken) ==
  LET page == Scan(rs, query, continuationToken + 1, PageSize, <<>>)
      more == \E i \in (page.pos + 1)..Len(rs) : Matches(rs[i], query)
  IN [entries |-> page.entries,
      continuationToken |-> IF more THEN page.pos ELSE 0]

Entity(rowKey, content, compression) ==
  [PartitionKey |-> AZURE_MANIFEST_TAG, RowKey |-> rowKey,
   content |-> content, compression |-> compression, Timestamp |-> 0]

\* insertEntity: pure insert, fails when the row key exists
InsertEntity(rs, entity, now) ==
  IF HasRow(rs, entity.RowKey)
    THEN [error |-> EntityAlreadyExists, rows |-> rs]
    ELSE [error |-> NoError, rows |-> Append(rs, [entity EXCEPT !.Timestamp = now])]

\* a store that keeps the row it has
InsertOrReplaceEntity_InsertOnly(rs, entity, now) == InsertEntity(rs, entity, now).rows

\* insertOrReplaceEntity: upsert
InsertOrReplaceEntity(rs, entity, now) ==
  IF HasRow(rs, entity.RowKey)
    THEN [rs EXCEPT ![RowIndex(rs, entity.RowKey)] = [entity EXCEPT !.Timestamp = now]]
    ELSE Append(rs, [entity EXCEPT !.Timestamp = now])

\* the outcomes of one store call: any call may fail
Outcomes == {NoError, StoreError}


\* ------------------------------------------------------- hook invocations
\* kind, context, key: the hook and what it was invoked with
\* pc: the store call that is outstanding (hook:line of the call)
\* status, error: the promise the hook returned (or the exception it threw)
\* current, entries, continuationToken: locals of _list and _query
\* revisions: what _list resolved with; calls: the store calls issued;
\* listed: the listing inside activate resolved; found: it contained the key
\* What the store observed of the invocation:
\* failure: the error a store call of the hook returned; served: the entries
\* the store returned to the listing; existed: the key's row was in the
\* table when upload was invoked; startClock: the store's clock when
\* willActivate or fetchRevisions was invoked;
\* wroteAt: the clock after the write of insertOrReplaceEntity; grew: the
\* rows insertEntity added; stored: the content under the key after it
\* answered: the store calls of the hook the store has answered; sent,
\* returned: the continuation tokens the pages of the listing were requested
\* with and the tokens they returned
IdleOp ==
  [kind |-> "none", context |-> NoContext, key |-> <<>>, pc |-> "idle",
   indexContents |-> <<>>,
   status |-> "none", error |-> NoError,
   current |-> Null, entries |-> <<>>, continuationToken |-> 0,
   revisions |-> <<>>, calls |-> <<>>, listed |-> FALSE, found |-> FALSE,
   failure |-> NoError, served |-> <<>>, existed |-> FALSE, startClock |-> 0,
   wroteAt |-> 0, grew |-> 0, stored |-> EntityString(<<>>),
   answered |-> 0, sent |-> <<>>, returned |-> <<>>]

Init ==
  /\ rows = <<>>
  /\ tableExists = FALSE
  /\ clock = 1
  /\ ops = [s \in Procs |-> IdleOp]
  /\ started = 0

\* a process that runs no hook starts the next one; of several such
\* processes the first does (they are interchangeable)
Free(s) ==
  /\ started < MaxOps
  /\ ops[s].pc \in {"idle", "done"}
  /\ \A t \in 1..(s - 1) : ops[t].pc \notin {"idle", "done"}

\* a promise settles once: resolve and reject of a settled promise do nothing
Resolve(op) ==
  IF op.status = "pending" THEN [op EXCEPT !.status = "resolved"] ELSE op

Reject(op, error) ==
  IF op.status = "pending"
    THEN [op EXCEPT !.status = "rejected", !.error = error]
    ELSE op

\* issue a store call: label is the place in the code, name the store method
Call(op, label, name) == [op EXCEPT !.pc = label, !.calls = Append(@, name)]

Done(op) == [op EXCEPT !.pc = "done"]

\* the hook throws before it returns a promise
Throw(kind, context, error) ==
  [IdleOp EXCEPT !.kind = kind, !.context = context,
                 !.pc = "done", !.status = "thrown", !.error = error]

NoteAnswer(op) == [op EXCEPT !.answered = @ + 1]

NoteFailure(op, error) ==
  IF error = NoError THEN op ELSE [op EXCEPT !.failure = error]

\* ----------------------------------------------------------------- upload
\* upload, lines 99-124: the client, the key, the file and the compression
UploadStart(s, context) ==
  /\ Free(s)
  /\ started' = started + 1
  /\ ops' = [ops EXCEPT ![s] =
       IF CreateClientThrows(context)
         THEN Throw("upload", context, MissingAuthError)
       ELSE IF ProjectNameThrows(context)
         THEN Throw("upload", context, ConfigurationError)
         ELSE Call([IdleOp EXCEPT
                 !.kind = "upload", !.context = context, !.key = _key(context),
                 !.indexContents = IF context.compressIndex
                                     THEN GzipSync(IndexHtml(started + 1))
                                     ELSE IndexHtml(started + 1),
                 !.status = "pending",
                 !.existed = HasRow(rows, _key(context))],
               "upload:127", "createTableIfNotExists")]
  /\ UNCHANGED <<rows, tableExists, clock>>

\* callback of createTableIfNotExists, lines 127-131 and 168-170
UploadCreateTableCallback(op, error) ==
  IF error = NoError
    THEN Call(op, "upload:134", "queryEntities")
    ELSE Done(Reject(op, error))

UploadCreateTable(s) ==
  /\ ops[s].pc = "upload:127"
  /\ \E error \in Outcomes :
       /\ tableExists' = (tableExists \/ error = NoError)
       /\ ops' = [ops EXCEPT ![s] =
            UploadCreateTableCallback(NoteFailure(NoteAnswer(@), error), error)]
  /\ UNCHANGED <<rows, clock, started>>

\* the callback without the existence check of line 137
UploadQueryCallback_NoCheck(op, error, result) ==
  IF error = NoError
    THEN Call(op, "upload:156", "insertEntity")
    ELSE Done(Reject(op, error))

\* callback of queryEntities, lines 134-139 and 164-166
UploadQueryCallback(op, error, result) ==
  IF error = NoError
    THEN IF Len(result.entries) > 0
           THEN Done(Reject(op, DuplicateRevisionError))
           ELSE Call(op, "upload:156", "insertEntity")
    ELSE Done(Reject(op, error))

UploadQuery(s) ==
  /\ ops[s].pc = "upload:134"
  /\ \E error \in Outcomes :
       /\ ops' = [ops EXCEPT ![s] =
            UploadQueryCallback(NoteFailure(NoteAnswer(@), error), error,
              QueryEntities(rows,
                [partitionKey |-> AZURE_MANIFEST_TAG, op |-> "eq", rowKey |-> @.key],
                0))]
  /\ UNCHANGED <<rows, tableExists, clock, started>>

\* the entity without its compression property
UploadEntity_Untagged(op) ==
  IF op.context.compressIndex
    THEN Entity(op.key, EntityBinary(op.indexContents), Absent)
    ELSE Entity(op.key, EntityString(op.indexContents), Absent)

\* the entity upload inserts, lines 140-149
UploadEntity(op) ==
  IF op.context.compressIndex
    THEN Entity(op.key, EntityBinary(op.indexContents), "gzip")
    ELSE Entity(op.key, EntityString(op.indexContents), Absent)

NoteStored(op, before, after) ==
  [op EXCEPT !.grew = Len(after) - Len(before),
             !.stored = IF HasRow(after, op.key)
                          THEN after[RowIndex(after, op.key)].content
                          ELSE @]

\* the callback resolving whatever insertEntity answered
UploadInsertCallback_AlwaysResolve(op, error) == Done(Resolve(op))

\* callback of insertEntity, lines 156-162
UploadInsertCallback(op, error) ==
  IF error = NoError
    THEN Done(Resolve(op))
    ELSE Done(Reject(op, error))

UploadInsert(s) ==
  /\ ops[s].pc = "upload:156"
  /\ \E outcome \in Outcomes :
       LET answer == IF outcome = NoError
                       THEN InsertEntity(rows, UploadEntity(ops[s]), clock)
                       ELSE [error |-> outcome, rows |-> rows]
       IN /\ rows' = answer.rows
          /\ clock' = IF answer.error = NoError THEN clock + 1 ELSE clock
          /\ ops' = [ops EXCEPT ![s] =
               NoteStored(
                 UploadInsertCallback(NoteFailure(NoteAnswer(@), answer.error), answer.error),
                 rows, answer.rows)]
  /\ UNCHANGED <<tableExists, started>>


\* ------------------------------------------------- _current, _list, _query
ListKinds == {"willActivate", "fetchRevisions", "activate"}

\* willActivate, fetchRevisions and fetchInitialRevisions, lines 83-97 and
\* 181-188, and activate, lines 190-199: each creates the client (lines 191,
\* 241, 274) and begins with _current's createTableIfNotExists; only
\* activate derives the key before it
HookStart(s, kind, context) ==
  /\ Free(s)
  /\ started' = started + 1
  /\ ops' = [ops EXCEPT ![s] =
       IF CreateClientThrows(context)
         THEN Throw(kind, context, MissingAuthError)
       ELSE IF kind = "activate" /\ ProjectNameThrows(context)
         THEN Throw(kind, context, ConfigurationError)
         ELSE Call([IdleOp EXCEPT
                 !.kind = kind, !.context = context,
                 !.key = IF kind = "activate" THEN _key(context) ELSE <<>>,
                 !.status = "pending",
                 !.startClock = IF kind = "activate" THEN 0 ELSE clock],
               "_current:248", "createTableIfNotExists")]
  /\ UNCHANGED <<rows, tableExists, clock>>

WillActivateStart(s, context) == HookStart(s, "willActivate", context)

FetchRevisionsStart(s, context) == HookStart(s, "fetchRevisions", context)

ActivateStart(s, context) == HookStart(s, "activate", context)

\* the promise of _current or _list rejects: willActivate and fetchRevisions
\* return the rejected chain; activate (lines 199-209) attaches no rejection
\* handler to it, so the promise it returned is never settled
RejectList(op, error) ==
  IF op.kind = "activate" THEN Done(op) ELSE Done(Reject(op, error))

\* an exception inside a store callback (line 253 or 286, _currentKey of an
\* invalid project name) settles nothing
ThrowInCallback(op) == Done([op EXCEPT !.error = ConfigurationError])

\* callback of createTableIfNotExists in _current, lines 248-253, 267-269
CurrentCreateTableCallback(op, error) ==
  IF error = NoError
    THEN IF ProjectNameThrows(op.context)
           THEN ThrowInCallback(op)
           ELSE Call(op, "_current:256", "queryEntities")
    ELSE RejectList(op, error)

CurrentCreateTable(s) ==
  /\ ops[s].pc = "_current:248"
  /\ \E error \in Outcomes :
       /\ tableExists' = (tableExists \/ error = NoError)
       /\ ops' = [ops EXCEPT ![s] =
            CurrentCreateTableCallback(NoteFailure(NoteAnswer(@), error), error)]
  /\ UNCHANGED <<rows, clock, started>>

\* callback of queryEntities in _current, lines 256-266, and what the hook
\* chains to it: willActivate records the value (lines 182-187), _list goes
\* on with its own createTableIfNotExists (lines 279-282)
CurrentQueryCallback(op, error, result) ==
  IF error = NoError
    THEN LET current == IF Len(result.entries) > 0
                          THEN result.entries[1].content.value
                          ELSE Null
         IN IF op.kind = "willActivate"
              THEN Done(Resolve([op EXCEPT !.current = current]))
              ELSE Call([op EXCEPT !.current = current],
                        "_list:282", "createTableIfNotExists")
    ELSE RejectList(op, error)

CurrentQuery(s) ==
  /\ ops[s].pc = "_current:256"
  /\ \E error \in Outcomes :
       /\ ops' = [ops EXCEPT ![s] =
            CurrentQueryCallback(NoteFailure(NoteAnswer(@), error), error,
              QueryEntities(rows,
                [partitionKey |-> AZURE_MANIFEST_TAG, op |-> "eq",
                 rowKey |-> _currentKey(@.context)],
                0))]
  /\ UNCHANGED <<rows, tableExists, clock, started>>

\* callback of createTableIfNotExists in _list, lines 282-291
ListCreateTableCallback(op, error) ==
  IF error = NoError
    THEN Call([op EXCEPT !.entries = <<>>, !.continuationToken = 0],
              "_query:300", "queryEntities")
    ELSE RejectList(op, error)

ListCreateTable(s) ==
  /\ ops[s].pc = "_list:282"
  /\ \E error \in Outcomes :
       /\ tableExists' = (tableExists \/ error = NoError)
       /\ ops' = [ops EXCEPT ![s] =
            ListCreateTableCallback(NoteFailure(NoteAnswer(@), error), error)]
  /\ UNCHANGED <<rows, clock, started>>


\* Array.prototype.sort with the comparator of lines 311-313: by Timestamp,
\* latest first, entries of equal Timestamp in their order of arrival
RECURSIVE InsertByTimestamp(_, _)
InsertByTimestamp(entry, sorted) ==
  IF sorted = <<>>
    THEN <<entry>>
    ELSE IF Head(sorted).Timestamp >= entry.Timestamp
      THEN <<Head(sorted)>> \o InsertByTimestamp(entry, Tail(sorted))
      ELSE <<entry>> \o sorted

\* the entries left in the order the store returned them
SortEntries_Unsorted(entries) == entries

RECURSIVE SortEntries(_)
SortEntries(entries) ==
  IF entries = <<>>
    THEN <<>>
    ELSE InsertByTimestamp(entries[Len(entries)],
                           SortEntries(SubSeq(entries, 1, Len(entries) - 1)))

\* the map of lines 315-318
\* every entry marked active
MapEntry_AlwaysActive(entry, current) ==
  [revision |-> entry.RowKey, timestamp |-> entry.Timestamp, active |-> TRUE]

MapEntry(entry, current) ==
  [revision |-> entry.RowKey, timestamp |-> entry.Timestamp,
   active |-> (current = entry.RowKey)]

MapEntries(sortedEntries, current) ==
  [i \in 1..Len(sortedEntries) |-> MapEntry(sortedEntries[i], current)]

\* the first then of activate, lines 200-209
KeyInManifest(existingEntries, key) ==
  \E i \in 1..Len(existingEntries) : existingEntries[i].revision = key

\* _list resolved with mappedEntries: fetchRevisions returns them (lines
\* 91-97); activate checks the key, rejects when it is absent, and the second
\* then (lines 210-217) issues insertOrReplaceEntity whatever the first
\* returned
ListResolved(op, mappedEntries) ==
  IF op.kind = "fetchRevisions"
    THEN Done(Resolve([op EXCEPT !.revisions = mappedEntries]))
    ELSE LET found == KeyInManifest(mappedEntries, op.key)
             checked == [op EXCEPT !.revisions = mappedEntries,
                                   !.listed = TRUE, !.found = found]
         IN Call(IF found THEN checked ELSE Reject(checked, RevisionNotFoundError),
                 "activate:217", "insertOrReplaceEntity")

\* keeping only the page just fetched
Accumulate_LastPage(entries, page) == page

\* entries.push of lines 302-304
Accumulate(entries, page) == entries \o page

\* the next page requested one position past the token the store returned
QueryCallback_TokenOff(op, error, result) ==
  IF error = NoError
    THEN LET entries == Accumulate(op.entries, result.entries)
             continuationToken == result.continuationToken
         IN IF continuationToken = 0
              THEN ListResolved([op EXCEPT !.entries = entries,
                                           !.continuationToken = 0],
                                MapEntries(SortEntries(entries), op.current))
              ELSE Call([op EXCEPT !.entries = entries,
                                   !.continuationToken = continuationToken + 1],
                        "_query:300", "queryEntities")
    ELSE RejectList(op, error)

\* the callback resolving with the entries fetched so far when a page fails
QueryCallback_Partial(op, error, result) ==
  IF error = NoError
    THEN LET entries == Accumulate(op.entries, result.entries)
             continuationToken == result.continuationToken
         IN IF continuationToken = 0
              THEN ListResolved([op EXCEPT !.entries = entries,
                                           !.continuationToken = 0],
                                MapEntries(SortEntries(entries), op.current))
              ELSE Call([op EXCEPT !.entries = entries,
                                   !.continuationToken = continuationToken],
                        "_query:300", "queryEntities")
    ELSE ListResolved(op, MapEntries(SortEntries(op.entries), op.current))

\* callback of queryEntities in _query, lines 300-327
QueryCallback(op, error, result) ==
  IF error = NoError
    THEN LET entries == Accumulate(op.entries, result.entries)
             continuationToken == result.continuationToken
         IN IF continuationToken = 0
              THEN ListResolved([op EXCEPT !.entries = entries,
                                           !.continuationToken = 0],
                                MapEntries(SortEntries(entries), op.current))
              ELSE Call([op EXCEPT !.entries = entries,
                                   !.continuationToken = continuationToken],
                        "_query:300", "queryEntities")
    ELSE RejectList(op, error)

\* the query of _list, lines 284-286
ListQueryOf(op) ==
  [partitionKey |-> AZURE_MANIFEST_TAG, op |-> "ne",
   rowKey |-> _currentKey(op.context)]

NoteServed(op, error, result) ==
  IF error = NoError
    THEN [op EXCEPT !.served = @ \o result.entries]
    ELSE op

\* the token the page was requested with and the token it returned
NoteTokens(op, error, result) ==
  [op EXCEPT !.sent = Append(@, op.continuationToken),
             !.returned = IF error = NoError
                            THEN Append(@, result.continuationToken)
                            ELSE @]

ListQuery(s) ==
  /\ ops[s].pc = "_query:300"
  /\ \E error \in Outcomes :
       LET result == QueryEntities(rows, ListQueryOf(ops[s]),
                                   ops[s].continuationToken)
       IN /\ ops' = [ops EXCEPT ![s] =
               QueryCallback(
                 NoteTokens(NoteServed(NoteFailure(NoteAnswer(@), error), error, result),
                            error, result),
                 error, result)]
  /\ UNCHANGED <<rows, tableExists, clock, started>>

\* ---------------------------------------------------------------- activate
\* the pointer entity holding the revision without the project name
ActivateEntity_BareRevision(op) ==
  Entity(_projectName(op.context) \o <<":", "c", "u", "r", "r", "e", "n", "t">>,
         EntityString(RevisionKeyOf(op.context)), Absent)

\* the pointer entity, lines 211-215
ActivateEntity(op) ==
  Entity(_projectName(op.context) \o <<":", "c", "u", "r", "r", "e", "n", "t">>,
         EntityString(op.key), Absent)

\* callback of insertOrReplaceEntity, lines 217-223
ActivateUpsertCallback(op, error) ==
  IF error = NoError
    THEN Done(Resolve(op))
    ELSE Done(Reject(op, error))

ActivateUpsert(s) ==
  /\ ops[s].pc = "activate:217"
  /\ \E error \in Outcomes :
       /\ rows' = IF error = NoError
                    THEN InsertOrReplaceEntity(rows, ActivateEntity(ops[s]), clock)
                    ELSE rows
       /\ clock' = IF error = NoError THEN clock + 1 ELSE clock
       /\ ops' = [ops EXCEPT ![s] =
            ActivateUpsertCallback(
              NoteFailure(IF error = NoError
                            THEN [NoteAnswer(@) EXCEPT !.wroteAt = clock + 1]
                            ELSE NoteAnswer(@),
                          error),
              error)]
  /\ UNCHANGED <<tableExists, started>>

\* ------------------------------------------------------- the specification
Next ==
  \E s \in Procs :
    \/ \E context \in Contexts : UploadStart(s, context)
    \/ UploadCreateTable(s)
    \/ UploadQuery(s)
    \/ UploadInsert(s)
    \/ \E context \in ProjectContexts : WillActivateStart(s, context)
    \/ \E context \in ProjectContexts : FetchRevisionsStart(s, context)
    \/ \E context \in Contexts : ActivateStart(s, context)
    \/ CurrentCreateTable(s)
    \/ CurrentQuery(s)
    \/ ListCreateTable(s)
    \/ ListQuery(s)
    \/ ActivateUpsert(s)

Spec == Init /\ [][Next]_vars


\* ------------------------------------------------------------- the claims
ValidContexts == {context \in Contexts : ~ProjectNameThrows(context)}

Settled(op) == op.pc = "done"

Count(seq, x) == Cardinality({i \in 1..Len(seq) : seq[i] = x})

RowsWithKey(rowKey) == {i \in 1..Len(rows) : rows[i].RowKey = rowKey}

\* C1: activate(k) whose listing does not contain k is rejected with the
\* 'revision not in manifest' error and never calls insertOrReplaceEntity
\* (so it leaves the pointer row as it was).
C1_AbsentKeyNoWrite ==
  \A s \in Procs :
    (ops[s].kind = "activate" /\ ops[s].listed /\ ~ops[s].found)
      => /\ ops[s].status = "rejected"
         /\ ops[s].error = RevisionNotFoundError
         /\ Count(ops[s].calls, "insertOrReplaceEntity") = 0
         /\ ops[s].wroteAt = 0

\* C2: activate(k) whose listing contains k resolves (when no store call
\* fails); and as long as nothing has been written since its upsert, a
\* willActivate of the project that started after it resolves with k, and a
\* fetchRevisions of the project that started after it marks the entry of k,
\* which is listed once, active and no other entry.
C2_Succeeds(a) ==
  (Settled(a) /\ a.listed /\ a.found /\ a.failure = NoError)
    => a.status = "resolved"

C2_Since(a, o) ==
  /\ a.kind = "activate" /\ a.status = "resolved" /\ a.found
  /\ o.context.project = a.context.project
  /\ o.status = "resolved"
  /\ o.startClock = a.wroteAt
  /\ clock = a.wroteAt

C2_ActivateSetsCurrent ==
  \A s \in Procs :
    /\ ops[s].kind = "activate" => C2_Succeeds(ops[s])
    /\ \A t \in Procs :
         /\ (ops[t].kind = "willActivate" /\ C2_Since(ops[s], ops[t]))
              => ops[t].current = ops[s].key
         /\ (ops[t].kind = "fetchRevisions" /\ C2_Since(ops[s], ops[t]))
              => /\ Cardinality({i \in 1..Len(ops[t].revisions) :
                                   ops[t].revisions[i].revision = ops[s].key}) = 1
                 /\ \A i \in 1..Len(ops[t].revisions) :
                      ops[t].revisions[i].active
                        <=> (ops[t].revisions[i].revision = ops[s].key)

\* an activate resolved, and a later fetchRevisions found its entry active
C2_Witness ==
  \E s, t \in Procs :
    /\ ops[t].kind = "fetchRevisions" /\ C2_Since(ops[s], ops[t])
    /\ \E i \in 1..Len(ops[t].revisions) : ops[t].revisions[i].active

C4_StoreErrorRejects ==
  \A s \in Procs :
    (Settled(ops[s]) /\ ops[s].failure # NoError)
      => (ops[s].status = "rejected" /\ ops[s].error = ops[s].failure)

\* C5: no two rows of the table have the same RowKey; of the uploads of one
\* key at most one resolves; and the content the table held under the key
\* right after the insert of the upload that resolved is its payload.
C5_UploadRace ==
  /\ \A i, j \in 1..Len(rows) : rows[i].RowKey = rows[j].RowKey => i = j
  /\ \A s, t \in Procs :
       (/\ ops[s].kind = "upload" /\ ops[t].kind = "upload"
        /\ ops[s].key = ops[t].key
        /\ ops[s].status = "resolved" /\ ops[t].status = "resolved")
         => s = t
  /\ \A s \in Procs :
       (ops[s].kind = "upload" /\ ops[s].status = "resolved")
         => ops[s].stored = UploadEntity(ops[s]).content

\* two uploads of one key both passed the existence query; one resolved
C5_Witness ==
  \E s, t \in Procs :
    /\ s # t
    /\ ops[s].kind = "upload" /\ ops[t].kind = "upload"
    /\ ops[s].key = ops[t].key
    /\ ~ops[s].existed /\ ~ops[t].existed
    /\ Count(ops[s].calls, "insertEntity") = 1
    /\ Count(ops[t].calls, "insertEntity") = 1
    /\ ops[s].status = "resolved"
    /\ ops[t].status = "rejected" /\ ops[t].error = EntityAlreadyExists


\* the contents upload can store
Payloads ==
  {IndexHtml(n) : n \in 1..MaxOps} \cup {GzipSync(IndexHtml(n)) : n \in 1..MaxOps}

\* the row is the pointer row activate writes for the project
IsPointerOf(row, project) ==
  \E context \in ValidContexts :
    /\ context.project = project
    /\ row.RowKey = _currentKey(context)
    /\ row.content = EntityString(_key(context))

\* the project has a pointer row that points to a row of the table
Activated(project) ==
  \E i \in 1..Len(rows) :
    IsPointerOf(rows[i], project) /\ HasRow(rows, rows[i].content.value)

\* the hook has a listing that resolved
HasListing(op) ==
  \/ op.kind = "fetchRevisions" /\ op.status = "resolved"
  \/ op.kind = "activate" /\ op.listed

\* C6: no entry of a resolved listing is the pointer row of a project that
\* has been activated, whichever project of the table asked for the listing.
C6_PointerNeverListed ==
  \A s \in Procs :
    HasListing(ops[s]) =>
      \A i \in 1..Len(ops[s].revisions) :
        \A context \in ValidContexts :
          Activated(context.project)
            => ops[s].revisions[i].revision # _currentKey(context)

\* C7: the key of every upload differs from the pointer key of its project,
\* so no row that upload inserts is a pointer row and willActivate never
\* resolves with an uploaded payload.
C7_ReservedKeyNonCollision ==
  \A s \in Procs :
    /\ (ops[s].kind = "upload" /\ ops[s].status # "thrown")
         => ops[s].key # _currentKey(ops[s].context)
    /\ (ops[s].kind = "willActivate" /\ ops[s].status = "resolved")
         => ops[s].current \notin Payloads

\* C8: two hooks that address the same manifest row were invoked with the
\* same project name and the same revision key; an explicit revision is the
\* revision key.
C8_KeyInjective ==
  \A s, t \in Procs :
    (/\ ops[s].kind \in {"upload", "activate"} /\ ops[s].status # "thrown"
     /\ ops[t].kind \in {"upload", "activate"} /\ ops[t].status # "thrown")
      => /\ ops[s].key = ops[t].key
           => /\ ops[s].context.project = ops[t].context.project
              /\ RevisionKeyOf(ops[s].context) = RevisionKeyOf(ops[t].context)
         /\ ops[s].context.revision # NoRevision
           => ops[s].key = ops[s].context.project \o <<":">> \o ops[s].context.revision

\* C9: a row that upload created stays in the table with the same RowKey,
\* content and compression in every step.
C9_RevisionsImmutable ==
  [][\A i \in 1..Len(rows) :
       rows[i].content.value \in Payloads
         => (i <= Len(rows') /\ rows'[i] = rows[i])]_vars

\* ------------------------------------------------- listing an existing table
\* rows of the tables the listing specification starts from
MaxRows == 3

SeedContext(i) ==
  [project |-> <<"a">>, revision |-> <<"v", ToString(i)>>,
   revisionKey |-> RevisionHash, compressIndex |-> FALSE,
   connectionString |-> TRUE, storageAccount |-> FALSE, storageAccessKey |-> FALSE]

SeedUpload(i) ==
  [IdleOp EXCEPT !.kind = "upload", !.context = SeedContext(i),
                 !.key = _key(SeedContext(i)), !.indexContents = IndexHtml(i)]

SeedActivate(i) ==
  [IdleOp EXCEPT !.kind = "activate", !.context = SeedContext(i),
                 !.key = _key(SeedContext(i))]

\* the table after n uploads of project a, revision 1 activated after the
\* first of them when activated
RECURSIVE SeedTable(_, _)
SeedTable(n, activated) ==
  IF n = 0
    THEN <<>>
    ELSE LET before == SeedTable(n - 1, activated)
             uploaded == InsertEntity(before, UploadEntity(SeedUpload(n)),
                                      Len(before) + 1).rows
         IN IF n = 1 /\ activated
              THEN InsertOrReplaceEntity(uploaded, ActivateEntity(SeedActivate(1)),
                                         Len(uploaded) + 1)
              ELSE uploaded

\* the same table after revision n was activated last: the pointer row keeps
\* its place and has the latest Timestamp
SeedReactivated(n) ==
  LET before == SeedTable(n, TRUE)
  IN InsertOrReplaceEntity(before, ActivateEntity(SeedActivate(n)), Len(before) + 1)

\* the latest Timestamp of the table
Latest(rs) ==
  IF rs = <<>>
    THEN 0
    ELSE CHOOSE t \in {rs[i].Timestamp : i \in 1..Len(rs)} :
           \A i \in 1..Len(rs) : rs[i].Timestamp <= t

InitList ==
  /\ \E n \in 0..MaxRows :
       \/ \E activated \in BOOLEAN : rows = SeedTable(n, activated)
       \/ n >= 2 /\ rows = SeedReactivated(n)
  /\ tableExists = (rows # <<>>)
  /\ clock = Latest(rows) + 1
  /\ ops = [s \in Procs |-> IdleOp]
  /\ started = 0

NextList ==
  \E s \in Procs :
    \/ \E context \in ProjectContexts : FetchRevisionsStart(s, context)
    \/ CurrentCreateTable(s)
    \/ CurrentQuery(s)
    \/ ListCreateTable(s)
    \/ ListQuery(s)

SpecList == InitList /\ [][NextList]_vars

\* the pages the listing of the hook was answered in
Pages(op) == Count(op.calls, "queryEntities") - 1

\* C10: a fetchRevisions that resolves returns every entry the store served
\* in the pages of its listing exactly once, and nothing else; when the table
\* was not written during the listing, these are the rows of the partition
\* other than the pointer row of the project, each once.
C10_PaginationComplete ==
  \A s \in Procs :
    (ops[s].kind = "fetchRevisions" /\ ops[s].status = "resolved")
      => /\ Len(ops[s].revisions) = Len(ops[s].served)
         /\ \A j \in 1..Len(ops[s].served) :
              Cardinality({i \in 1..Len(ops[s].revisions) :
                /\ ops[s].revisions[i].revision = ops[s].served[j].RowKey
                /\ ops[s].revisions[i].timestamp = ops[s].served[j].Timestamp}) = 1
         /\ ops[s].startClock = clock
              => /\ \A j \in 1..Len(rows) :
                      rows[j].RowKey # _currentKey(ops[s].context)
                        => Cardinality({i \in 1..Len(ops[s].revisions) :
                             ops[s].revisions[i].revision = rows[j].RowKey}) = 1
                 /\ Len(ops[s].revisions) =
                      Cardinality({j \in 1..Len(rows) :
                        rows[j].RowKey # _currentKey(ops[s].context)})

\* a listing answered in at least three pages, the pointer row skipped
C10_Witness ==
  \E s \in Procs :
    /\ ops[s].kind = "fetchRevisions" /\ ops[s].status = "resolved"
    /\ Pages(ops[s]) >= 3
    /\ Len(ops[s].revisions) >= 3
    /\ Len(rows) > Len(ops[s].revisions)

\* C11: a fetchRevisions for which a store call failed never resolves and
\* returns no entries; once it has no call outstanding it is rejected with
\* the error of the store, also when earlier pages had been fetched.
C11_NoPartialListing ==
  \A s \in Procs :
    (ops[s].kind = "fetchRevisions" /\ ops[s].failure # NoError)
      => /\ ops[s].status # "resolved"
         /\ ops[s].revisions = <<>>
         /\ Settled(ops[s])
         /\ ops[s].status = "rejected"
         /\ ops[s].error = ops[s].failure

\* a page failed after two pages had been fetched
C11_Witness ==
  \E s \in Procs :
    /\ ops[s].kind = "fetchRevisions" /\ ops[s].failure = StoreError
    /\ Len(ops[s].served) >= 2 /\ Pages(ops[s]) >= 3
    /\ ops[s].status = "rejected" /\ ops[s].error = StoreError

\* C12: a fetchRevisions that resolves returns the entries the store served,
\* all of them, latest Timestamp first, in whatever order and pages the
\* store served them.
C12_ListingOrder ==
  \A s \in Procs :
    (ops[s].kind = "fetchRevisions" /\ ops[s].status = "resolved")
      => /\ \A i, j \in 1..Len(ops[s].revisions) :
              i < j => ops[s].revisions[i].timestamp >= ops[s].revisions[j].timestamp
         /\ {ops[s].revisions[i].timestamp : i \in 1..Len(ops[s].revisions)}
              = {ops[s].served[j].Timestamp : j \in 1..Len(ops[s].served)}

\* three pages whose Timestamps neither rise nor fall throughout, returned
\* as t3, t2, t1
C12_Witness ==
  \E s \in Procs :
    /\ ops[s].kind = "fetchRevisions" /\ ops[s].status = "resolved"
    /\ Pages(ops[s]) >= 3 /\ Len(ops[s].revisions) = Len(ops[s].served)
    /\ \E j \in 1..(Len(ops[s].served) - 1) :
         ops[s].served[j].Timestamp < ops[s].served[j + 1].Timestamp
    /\ \E j \in 1..(Len(ops[s].served) - 1) :
         ops[s].served[j].Timestamp > ops[s].served[j + 1].Timestamp
    /\ \A i \in 1..(Len(ops[s].revisions) - 1) :
         ops[s].revisions[i].timestamp > ops[s].revisions[i + 1].timestamp

\* ------------------------------------------- hooks under any configuration
\* a hook invoked directly, whatever the settings and the project name are
ConfigContexts ==
  { [project |-> project, revision |-> NoRevision,
     revisionKey |-> RevisionHash, compressIndex |-> FALSE,
     connectionString |-> connectionString, storageAccount |-> storageAccount,
     storageAccessKey |-> storageAccessKey] :
      project \in {<<"a">>, <<"a", "/", "b">>},
      connectionString \in BOOLEAN, storageAccount \in BOOLEAN,
      storageAccessKey \in BOOLEAN }

\* one deploy process runs its hooks one after the other
NextConfig ==
  \/ \E context \in ConfigContexts : UploadStart(1, context)
  \/ UploadCreateTable(1)
  \/ UploadQuery(1)
  \/ UploadInsert(1)
  \/ \E context \in ConfigContexts : WillActivateStart(1, context)
  \/ \E context \in ConfigContexts : FetchRevisionsStart(1, context)
  \/ \E context \in ConfigContexts : ActivateStart(1, context)
  \/ CurrentCreateTable(1)
  \/ CurrentQuery(1)
  \/ ListCreateTable(1)
  \/ ListQuery(1)
  \/ ActivateUpsert(1)

SpecConfig == Init /\ [][NextConfig]_vars

\* C13: a hook invoked without a connection string or account and key, or
\* with a project name that has a disallowed character, fails with the
\* configuration error and has issued no store call.
C13_ConfigErrorsFirst ==
  \A s \in Procs :
    (ops[s].kind # "none"
       /\ (CreateClientThrows(ops[s].context) \/ ProjectNameThrows(ops[s].context)))
      => /\ ops[s].status = "thrown"
         /\ ops[s].error \in {MissingAuthError, ConfigurationError}
         /\ ops[s].calls = <<>>

\* no activate has written its pointer row: no row holds a revision key as
\* content (rows are never removed, and only activate replaces a pointer row)
NoActivation ==
  \A i \in 1..Len(rows) :
    rows[i].content.value \notin {_key(context) : context \in Contexts}

\* C14: while the table has no rows (created or not), willActivate resolves
\* with the null sentinel, which is no revision key, and fetchRevisions
\* resolves with the empty list; while no activation has happened, no entry
\* of a resolved listing is marked active.
C14_EmptyManifest ==
  /\ \A context \in Contexts \cup ConfigContexts : _key(context) # Null
  /\ \A s \in Procs :
       /\ (rows = <<>> /\ ops[s].kind = "willActivate" /\ ops[s].status = "resolved")
            => ops[s].current = Null
       /\ (rows = <<>> /\ ops[s].kind = "fetchRevisions" /\ ops[s].status = "resolved")
            => ops[s].revisions = <<>> /\ ops[s].current = Null
       /\ (NoActivation /\ ops[s].kind = "fetchRevisions" /\ ops[s].status = "resolved")
            => \A i \in 1..Len(ops[s].revisions) : ~ops[s].revisions[i].active

\* on the empty table one process resolved willActivate with null and the
\* other resolved a listing with no entries
C14_Witness ==
  /\ rows = <<>>
  /\ \E s, t \in Procs :
       /\ ops[s].kind = "willActivate" /\ ops[s].status = "resolved"
       /\ ops[s].current = Null
       /\ ops[t].kind = "fetchRevisions" /\ ops[t].status = "resolved"
       /\ ops[t].revisions = <<>>

\* C15: the row an upload wrote has compression "gzip" and binary content
\* when compressIndex is set, and text content and no compression property
\* when it is not; so the content of every row of the table is binary
\* exactly when its compression is "gzip".
C15_EncodingByTag ==
  /\ \A i \in 1..Len(rows) :
       /\ rows[i].content.type = "Binary" <=> rows[i].compression = "gzip"
       /\ rows[i].compression \in {"gzip", Absent}
  /\ \A s \in Procs :
       (ops[s].kind = "upload" /\ ops[s].status = "resolved")
         => /\ HasRow(rows, ops[s].key)
            /\ LET row == rows[RowIndex(rows, ops[s].key)]
               IN IF ops[s].context.compressIndex
                    THEN /\ row.compression = "gzip"
                         /\ row.content = EntityBinary(ops[s].indexContents)
                         /\ \E n \in 1..MaxOps :
                              row.content.value = GzipSync(IndexHtml(n))
                    ELSE /\ row.compression = Absent
                         /\ row.content.type = "String"

\* one upload with compressIndex and one without resolved; the table holds
\* the binary and the text row
C15_Witness ==
  \E s, t \in Procs :
    /\ ops[s].kind = "upload" /\ ops[s].status = "resolved"
    /\ ops[s].context.compressIndex
    /\ ops[t].kind = "upload" /\ ops[t].status = "resolved"
    /\ ~ops[t].context.compressIndex
    /\ rows[RowIndex(rows, ops[s].key)].content.type = "Binary"
    /\ rows[RowIndex(rows, ops[t].key)].content.type = "String"
    /\ rows[RowIndex(rows, ops[t].key)].content.value = ops[t].indexContents

\* C16: an upload whose insertEntity was refused because the row already
\* existed (it passed the existence query, another upload of the key
\* inserted first) is rejected with the duplicate-revision error, as a
\* sequential duplicate is.
C16_RaceLoserDuplicateError ==
  \A s \in Procs :
    (/\ ops[s].kind = "upload" /\ Settled(ops[s])
     /\ Count(ops[s].calls, "insertEntity") = 1
     /\ ops[s].failure = EntityAlreadyExists)
      => ops[s].status = "rejected" /\ ops[s].error = DuplicateRevisionError

\* ------------------------------------------- activations of uploaded revisions
\* two deploy processes activate revisions of project a on a table that
\* holds some of them
InitActivate ==
  /\ \E n \in 1..MaxRows, activated \in BOOLEAN : rows = SeedTable(n, activated)
  /\ tableExists = TRUE
  /\ clock = Latest(rows) + 1
  /\ ops = [s \in Procs |-> IdleOp]
  /\ started = 0

NextActivate ==
  \E s \in Procs :
    \/ \E i \in 1..MaxRows : ActivateStart(s, SeedContext(i))
    \/ CurrentCreateTable(s)
    \/ CurrentQuery(s)
    \/ ListCreateTable(s)
    \/ ListQuery(s)
    \/ ActivateUpsert(s)

SpecActivate == InitActivate /\ [][NextActivate]_vars

\* C17: an activate of a revision its listing found, none of whose store
\* calls failed, resolves without error however it interleaves with another
\* one; the table never holds two pointer rows of the project and holds one
\* once an activate wrote; and the pointer's content is the key of the
\* activate whose insertOrReplaceEntity was applied last.
C17_ActivationLastWriteWins ==
  /\ Cardinality(RowsWithKey(_currentKey(SeedContext(1)))) <= 1
  /\ \A s \in Procs :
       ops[s].kind = "activate" =>
         /\ (Settled(ops[s]) /\ ops[s].found /\ ops[s].failure = NoError)
              => ops[s].status = "resolved" /\ ops[s].error = NoError
         /\ ops[s].wroteAt > 0
              => Cardinality(RowsWithKey(_currentKey(ops[s].context))) = 1
         /\ (ops[s].wroteAt > 0 /\ ops[s].wroteAt = clock)
              => rows[RowIndex(rows, _currentKey(ops[s].context))].content
                   = EntityString(ops[s].key)

\* two activates of different revisions both listed the table before either
\* wrote (each read no pointer), both resolved, and the pointer holds the key
\* of the one that wrote last
C17_Witness ==
  \E s, t \in Procs :
    /\ ops[s].kind = "activate" /\ ops[t].kind = "activate"
    /\ ops[s].key # ops[t].key
    /\ ops[s].found /\ ops[t].found
    /\ ops[s].status = "resolved" /\ ops[t].status = "resolved"
    /\ ops[s].current = Null /\ ops[t].current = Null
    /\ 0 < ops[s].wroteAt /\ ops[s].wroteAt < ops[t].wroteAt
    /\ ops[t].wroteAt = clock
    /\ Cardinality(RowsWithKey(_currentKey(ops[t].context))) = 1
    /\ rows[RowIndex(rows, _currentKey(ops[t].context))].content.value = ops[t].key

\* the store calls a hook issues, in the order of the code
ListCalls == <<"createTableIfNotExists", "queryEntities", "createTableIfNotExists">>

UploadCalls == <<"createTableIfNotExists", "queryEntities", "insertEntity">>

IsPrefix(p, q) == Len(p) <= Len(q) /\ SubSeq(q, 1, Len(p)) = p

\* C18: a hook has at most one store call outstanding, none once it is done;
\* upload's calls are createTableIfNotExists, queryEntities, insertEntity in
\* this order; a listing has had its pointer query answered before it
\* requests a page, requests the first page with the null token and every
\* later page with the token the page before returned, requests no page
\* after one that returned no token, and has its entries then.
C18_SequentialStoreCalls ==
  \A s \in Procs :
    LET op == ops[s]
    IN op.kind # "none" =>
         /\ Len(op.calls) - op.answered = (IF Settled(op) THEN 0 ELSE 1)
         /\ op.kind = "upload" => IsPrefix(op.calls, UploadCalls)
         /\ op.kind = "willActivate" => IsPrefix(op.calls, SubSeq(ListCalls, 1, 2))
         /\ op.kind \in {"fetchRevisions", "activate"} =>
              /\ IsPrefix(op.calls, ListCalls) \/ IsPrefix(ListCalls, op.calls)
              /\ \A i \in 4..Len(op.calls) :
                   \/ op.calls[i] = "queryEntities"
                   \/ /\ op.kind = "activate" /\ i = Len(op.calls)
                      /\ op.calls[i] = "insertOrReplaceEntity"
                      /\ op.calls[i - 1] = "queryEntities"
              /\ Len(op.sent) = Cardinality({i \in 4..Len(op.calls) :
                                              op.calls[i] = "queryEntities"})
                                  - (IF op.pc = "_query:300" THEN 1 ELSE 0)
              /\ Len(op.returned) \in {Len(op.sent), Len(op.sent) - 1}
              /\ op.sent # <<>> => op.sent[1] = 0 /\ op.answered >= 4
              /\ \A i \in 2..Len(op.sent) :
                   op.sent[i] = op.returned[i - 1] /\ op.returned[i - 1] # 0
              /\ (op.returned # <<>> /\ op.returned[Len(op.returned)] = 0)
                   => /\ Len(op.returned) = Len(op.sent)
                      /\ op.pc # "_query:300"
                      /\ HasListing(op)
                      /\ Len(op.revisions) = Len(op.served)
              /\ (op.pc = "_query:300" /\ op.returned # <<>>)
                   => op.continuationToken = op.returned[Len(op.returned)]

\* a listing of two pages: the second requested with the token of the first
C18_Witness ==
  \E s \in Procs :
    /\ ops[s].kind = "fetchRevisions" /\ ops[s].status = "resolved"
    /\ Len(ops[s].sent) >= 2
    /\ ops[s].sent[1] = 0 /\ ops[s].sent[2] = ops[s].returned[1]
    /\ ops[s].returned[Len(ops[s].returned)] = 0
    /\ Len(ops[s].revisions) >= 2

\* C19: the pointer row of a project, when the table has one, holds as
\* content the row key of a revision row of the table.
C19_PointerReferentialIntegrity ==
  \A i \in 1..Len(rows) :
    (\E context \in ValidContexts : rows[i].RowKey = _currentKey(context))
      => \E j \in 1..Len(rows) :
           /\ j # i
           /\ rows[j].RowKey = rows[i].content.value

====
